---- MODULE Spec2Model ----
(***************************************************************************)
(* Wagering store (BettingState) and the betting panel built on it.        *)
(* Amounts are JavaScript numbers; the model represents an amount x by the *)
(* integer x * Scale, so that fractions down to 1/Scale are representable. *)
(***************************************************************************)
EXTENDS Integers, Sequences, FiniteSets, TLC

(* ---------------------------------------------------------------- bounds *)
\* an amount x is represented by the integer x * Scale
Scale == 2
\* increaseBet / decreaseBet are explored while the resulting bet is at most
\* MaxWalkSteps default steps, or is clamped to the balance
MaxWalkSteps == 2
\* subscribe is explored while this.listeners holds fewer than MaxListeners
\* callbacks
MaxListeners == 3
\* rounds are started while fewer than MaxGames have been played
MaxGames == 2
\* swapCups is called on its own at most MaxSwaps times
MaxSwaps == 2

(* ------------------------------------------------------ program constants *)
InitialBalance == 1000
DefaultBet     == 10
DefaultStep    == 10
MinPlaceBet    == 1
CUP_COUNT      == 3
SHUFFLE_COUNT  == 10
QuickBetAmounts == {10 * Scale, 50 * Scale, 100 * Scale}

null == "null"
undefined == "undefined"
nullBet == [none |-> TRUE]

(* ------------------------------------------------------------- input sets *)
BalanceInputs  == {0 - 10 * Scale, 0, 1, 1000 * Scale}
AmountInputs   == {0 - 5 * Scale, 0, 10 * Scale, 5000 * Scale}
StepInputs     == {DefaultStep * Scale, 1000 * Scale}
TypedAmounts   == {0, 1}
CurrencyArgs   == {null, "EUR"}
TokenInputs    == {"tok"}
Callbacks      == {"a", "b"}
IdentityInputs ==
    {[id |-> "u1", providerId |-> "p1", currency |-> "EUR"],
     [id |-> undefined, providerId |-> undefined, currency |-> undefined]}
BetRecords     == {[session |-> "u1", bet |-> 10 * Scale, currency |-> "USD"]}
ErrorInputs    == {"err"}
UserIdInputs   == {"u1"}

VARIABLES
    sessionToken, userId, providerId,   \* identity
    balance, currency,
    currentBetAmount,
    isBetting,
    lastBet,
    isConnected, connectionError,
    disabled,        \* panel widgets' disabled flags, as last rendered
    isEditing,       \* the amount input is in edit mode
    lastCall,        \* the operation that ran last and its argument
    notified,        \* number of notify() passes the last operation made
    listeners,       \* this.listeners: the subscribed callbacks, in array order
    handles,         \* callbacks for which an unsubscribe function exists
    pass,            \* the forEach of the notify() in progress, if any
    log,             \* invocations of the current (or last) pass: callback, state seen
    subscribed,      \* history: callbacks in the order subscribed, unsubscribed ones removed
    hist,            \* history of the current (or last) pass
    cups,            \* the cups array: cup identity at each index
    ballPosition,    \* index of the cup over the ball
    isShuffling, isRevealing, canSelect,
    score, gamesPlayed,
    playButtonVisible,
    pc,              \* where the round is suspended
    frame,           \* locals of shuffleCups, swapCups and selectCup
    track,           \* history of the shuffle (or of the swaps called)
    intervals,       \* number of trail intervals that are running
    hadBet           \* history: the bet amount has been other than 0

storeVars == <<sessionToken, userId, providerId, balance, currency,
               currentBetAmount, isBetting, lastBet, isConnected,
               connectionError>>
panelVars == <<disabled, isEditing>>
obsVars == <<listeners, handles, pass, log, subscribed, hist>>
gameVars == <<cups, ballPosition, isShuffling, isRevealing, canSelect,
              score, gamesPlayed, playButtonVisible, pc, frame, track,
              intervals>>
vars == <<storeVars, panelVars, lastCall, notified, obsVars, gameVars,
         hadBet>>
\* everything but the game
bettingVars == <<storeVars, panelVars, lastCall, notified, obsVars, hadBet>>

Min(a, b) == IF a <= b THEN a ELSE b
Max(a, b) == IF a >= b THEN a ELSE b

(* ----------------------------------------------------- derived properties *)
\* the fields of the store the derived properties read
this == [isConnected |-> isConnected, balance |-> balance,
         currentBetAmount |-> currentBetAmount, isBetting |-> isBetting]

isAuthenticated == TRUE

\* canBet without the in-flight test
canBetOfIgnoringFlight(s) ==
    /\ isAuthenticated
    /\ s.isConnected
    /\ s.balance > 0
    /\ s.currentBetAmount > 0
    /\ s.currentBetAmount <= s.balance

canBetOf(s) ==
    /\ isAuthenticated
    /\ s.isConnected
    /\ s.balance > 0
    /\ s.currentBetAmount > 0
    /\ s.currentBetAmount <= s.balance
    /\ ~s.isBetting

\* canIncrease with <= for <
canIncreaseOfInclusive(s) == ~s.isBetting /\ s.currentBetAmount <= s.balance

canIncreaseOf(s) == ~s.isBetting /\ s.currentBetAmount < s.balance

canDecreaseOf(s) == ~s.isBetting /\ s.currentBetAmount > 0

canBet == canBetOf(this)
canIncrease == canIncreaseOf(this)
canDecrease == canDecreaseOf(this)

(* ----------------------------------------------- the panel's subscriber *)
\* disabled flags the panel's state listener sets from the snapshot it gets
panelRender(s) ==
    [decreaseBtn |-> ~canDecreaseOf(s),
     increaseBtn |-> ~canIncreaseOf(s),
     betInput    |-> s.isBetting,
     refreshBtn  |-> s.isBetting,
     quickBtns   |-> s.isBetting,
     placeBetBtn |-> ~canBetOf(s)]

\* notify(): one pass over the listeners with the current state s; the
\* panel's listener re-renders, and a disabled input leaves edit mode.
notify(s) ==
    /\ disabled' = panelRender(s)
    /\ isEditing' = IF s.isBetting /\ isEditing THEN FALSE ELSE isEditing

Call(op, arg) == [op |-> op, arg |-> arg]

\* the operation op(arg) ran; it touches neither the subscriber list, a pass
\* nor the game
Did(op, arg) ==
    /\ lastCall' = Call(op, arg)
    /\ hadBet' = (hadBet \/ currentBetAmount' # 0)
    /\ UNCHANGED <<obsVars, gameVars>>

(* ------------------------------------------------------ store operations *)
\* a field of the argument is truthy (neither undefined, null nor "")
truthy(v) == v # undefined /\ v # null /\ v # ""

\* the auto-seed repeated whatever the current bet is
updateBalanceBetAlways(b) ==
    IF b > 0 THEN Min(DefaultBet * Scale, b) ELSE currentBetAmount

updateBalanceBet(b) ==
    IF currentBetAmount = 0 /\ b > 0
    THEN Min(DefaultBet * Scale, b)
    ELSE currentBetAmount

updateBalance(b, c) ==
    /\ balance' = b
    /\ currency' = IF truthy(c) THEN c ELSE currency
    /\ currentBetAmount' = updateBalanceBet(b)
    /\ UNCHANGED <<sessionToken, userId, providerId, isBetting, lastBet,
                   isConnected, connectionError>>
    /\ notify(this')

\* the clamp without its upper limit
clampBetNoUpper(amount) == Max(0, amount)

clampBet(amount) == Max(0, Min(amount, balance))

\* the body of setBetAmount, shared by the operations that delegate to it
setBetAmountBody(amount) ==
    /\ currentBetAmount' = clampBet(amount)
    /\ UNCHANGED <<sessionToken, userId, providerId, balance, currency,
                   isBetting, lastBet, isConnected, connectionError>>

setBetAmount(amount) ==
    /\ setBetAmountBody(amount)
    /\ notify(this')

\* increaseBet adding to the bet itself instead of delegating
increaseBetUnclamped(amount) ==
    /\ currentBetAmount' = currentBetAmount + amount
    /\ UNCHANGED <<sessionToken, userId, providerId, balance, currency,
                   isBetting, lastBet, isConnected, connectionError>>
    /\ notify(this')

increaseBet(amount) == setBetAmount(currentBetAmount + amount)

decreaseBet(amount) == setBetAmount(currentBetAmount - amount)

setMaxBet == setBetAmount(balance)

setSession(token) ==
    /\ sessionToken' = token
    /\ UNCHANGED <<userId, providerId, balance, currency, currentBetAmount,
                   isBetting, lastBet, isConnected, connectionError>>
    /\ notify(this')

setIdentity(data) ==
    /\ userId' = IF truthy(data.id) THEN data.id ELSE userId
    /\ providerId' = IF data.providerId # undefined
                     THEN data.providerId ELSE providerId
    /\ currency' = IF truthy(data.currency) THEN data.currency ELSE currency
    /\ UNCHANGED <<sessionToken, balance, currentBetAmount, isBetting,
                   lastBet, isConnected, connectionError>>
    /\ notify(this')

startBetting ==
    /\ isBetting' = TRUE
    /\ UNCHANGED <<sessionToken, userId, providerId, balance, currency,
                   currentBetAmount, lastBet, isConnected, connectionError>>
    /\ notify(this')

confirmBet(betData) ==
    /\ lastBet' = betData
    /\ isBetting' = FALSE
    /\ UNCHANGED <<sessionToken, userId, providerId, balance, currency,
                   currentBetAmount, isConnected, connectionError>>
    /\ notify(this')

\* betError also forgetting the last confirmed bet
betErrorClearsBet(error) ==
    /\ isBetting' = FALSE
    /\ lastBet' = nullBet
    /\ UNCHANGED <<sessionToken, userId, providerId, balance, currency,
                   currentBetAmount, isConnected, connectionError>>
    /\ notify(this')

betError(error) ==
    /\ isBetting' = FALSE
    /\ UNCHANGED <<sessionToken, userId, providerId, balance, currency,
                   currentBetAmount, lastBet, isConnected, connectionError>>
    /\ notify(this')

\* setConnected never touching the stored error
setConnectedErrorKept(connected) == connectionError

setConnectedError(connected) == IF connected THEN null ELSE connectionError

setConnected(connected) ==
    /\ isConnected' = connected
    /\ connectionError' = setConnectedError(connected)
    /\ UNCHANGED <<sessionToken, userId, providerId, balance, currency,
                   currentBetAmount, isBetting, lastBet>>
    /\ notify(this')

\* setConnectionError also dropping the bet in flight
setConnectionErrorResets(error) ==
    /\ connectionError' = error
    /\ isConnected' = FALSE
    /\ isBetting' = FALSE
    /\ UNCHANGED <<sessionToken, userId, providerId, balance, currency,
                   currentBetAmount, lastBet>>
    /\ notify(this')

setConnectionError(error) ==
    /\ connectionError' = error
    /\ isConnected' = FALSE
    /\ UNCHANGED <<sessionToken, userId, providerId, balance, currency,
                   currentBetAmount, isBetting, lastBet>>
    /\ notify(this')

(* ------------------------------------------------------------------ Init *)
(* ------------------------------------------------- subscribe and notify *)
Range(f) == {f[k] : k \in DOMAIN f}

\* the callbacks of a sequence of invocations
Invoked(l) == [k \in DOMAIN l |-> l[k].cb]

\* no forEach is running
noPass == [active |-> FALSE, arr |-> <<>>, len |-> 0, pos |-> 0,
           aliased |-> FALSE]

noHist == [atStart |-> <<>>, staleAtStart |-> {}, addedInPass |-> {},
           unsubInPass |-> FALSE, due |-> {}, dueUnsub |-> FALSE]

ObsInit ==
    /\ listeners = <<>>
    /\ handles = {}
    /\ pass = noPass
    /\ log = <<>>
    /\ subscribed = <<>>
    /\ hist = noHist

\* the new callback put in front of the array
subscribeUnshift(l, callback) == <<callback>> \o l

\* this.listeners.push(callback)
subscribePush(l, callback) == Append(l, callback)

\* this.listeners.filter(cb => cb !== callback)
unsubscribeFilter(l, callback) == SelectSeq(l, LAMBDA cb : cb # callback)

\* the array of the running forEach after a push on this.listeners: the
\* same array object while no unsubscribe has replaced this.listeners
passAfterPush(p, callback) ==
    IF p.active /\ p.aliased
    THEN [p EXCEPT !.arr = subscribePush(@, callback)]
    ELSE p

\* the callback spliced out of the array the forEach is walking
passAfterSplice(p, callback) ==
    IF p.active /\ p.aliased
    THEN [p EXCEPT !.arr = unsubscribeFilter(@, callback)]
    ELSE p

\* the running forEach after the unsubscribe function has assigned a new
\* array to this.listeners: the forEach keeps walking the old one
passAfterFilter(p, callback) == [p EXCEPT !.aliased = FALSE]

\* subscribe(callback), called while the forEach is as p says
subscribe(p, callback) ==
    /\ listeners' = subscribePush(listeners, callback)
    /\ pass' = passAfterPush(p, callback)
    /\ handles' = handles \cup {callback}
    /\ subscribed' = Append(subscribed, callback)
    /\ hist' = IF p.active
               THEN [hist EXCEPT !.addedInPass = @ \cup {callback}]
               ELSE hist

\* the function subscribe(callback) returned, called while the forEach is
\* as p says
unsubscribe(p, callback) ==
    /\ listeners' = unsubscribeFilter(listeners, callback)
    /\ pass' = passAfterFilter(p, callback)
    /\ subscribed' = SelectSeq(subscribed, LAMBDA cb : cb # callback)
    /\ hist' = IF p.active
               THEN [hist EXCEPT !.unsubInPass = TRUE]
               ELSE hist
    /\ UNCHANGED handles

\* the forEach that visits whatever the array holds by then
forEachLimitLive(p) == Len(p.arr)

\* forEach reads the length of the array once, before the first callback
forEachLimit(p) == p.len

\* subscribe(callback) called outside a pass
Subscribe ==
    \E callback \in Callbacks :
        /\ ~pass.active
        /\ Len(listeners) < MaxListeners
        /\ subscribe(pass, callback)
        /\ lastCall' = Call("subscribe", callback)
        /\ UNCHANGED <<storeVars, panelVars, notified, log, gameVars, hadBet>>

\* an unsubscribe function called outside a pass
Unsubscribe ==
    \E callback \in handles :
        /\ ~pass.active
        /\ unsubscribe(pass, callback)
        /\ lastCall' = Call("unsubscribe", callback)
        /\ UNCHANGED <<storeVars, panelVars, notified, log, gameVars, hadBet>>

\* notify() starts its forEach over this.listeners
notifyBegin ==
    /\ pass' = [active |-> TRUE, arr |-> listeners, len |-> Len(listeners),
                pos |-> 0, aliased |-> TRUE]
    /\ log' = <<>>
    /\ hist' = [atStart |-> subscribed,
                staleAtStart |-> handles \ Range(subscribed),
                addedInPass |-> {},
                unsubInPass |-> FALSE,
                due |-> hist.addedInPass \cap Range(subscribed),
                dueUnsub |-> hist.unsubInPass]
    /\ notified' = 1
    /\ UNCHANGED <<listeners, handles, subscribed>>

\* startBetting() up to the first callback of its notify()
NotifyStartBetting ==
    /\ ~pass.active
    /\ isBetting' = TRUE
    /\ UNCHANGED <<sessionToken, userId, providerId, balance, currency,
                   currentBetAmount, lastBet, isConnected, connectionError>>
    /\ notifyBegin
    /\ lastCall' = Call("startBetting", 0)
    /\ UNCHANGED <<panelVars, gameVars, hadBet>>

\* betError() up to the first callback of its notify()
NotifyBetError ==
    /\ ~pass.active
    /\ isBetting' = FALSE
    /\ UNCHANGED <<sessionToken, userId, providerId, balance, currency,
                   currentBetAmount, lastBet, isConnected, connectionError>>
    /\ notifyBegin
    /\ lastCall' = Call("betError", 0)
    /\ UNCHANGED <<panelVars, gameVars, hadBet>>

\* the next index the forEach has still to visit, if there is one
forEachMore(p) == p.pos < Min(forEachLimit(p), Len(p.arr))

\* forEach calls the next callback with the store; the callback returns at
\* once, subscribes a callback, or calls an unsubscribe function
NotifyCall ==
    /\ pass.active
    /\ forEachMore(pass)
    /\ LET cb == pass.arr[pass.pos + 1]
           stepped == [pass EXCEPT !.pos = @ + 1]
       IN  /\ log' = Append(log, [cb |-> cb, seen |-> this])
           /\ lastCall' = Call("callback", cb)
           /\ \/ /\ pass' = stepped
                 /\ UNCHANGED <<listeners, handles, subscribed, hist>>
              \/ \E callback \in Callbacks :
                    /\ Len(listeners) < MaxListeners
                    /\ subscribe(stepped, callback)
              \/ \E callback \in handles :
                    unsubscribe(stepped, callback)
    /\ UNCHANGED <<storeVars, panelVars, notified, gameVars, hadBet>>

\* forEach has no index left to visit: notify() returns
NotifyReturn ==
    /\ pass.active
    /\ ~forEachMore(pass)
    /\ pass' = noPass
    /\ lastCall' = Call("notify.return", 0)
    /\ UNCHANGED <<hadBet, storeVars, panelVars, notified, listeners, handles, log,
                   subscribed, hist, gameVars>>

(* ------------------------------------------------------------- the game *)
Indices == 0 .. CUP_COUNT - 1

\* the cups array as init() fills it: cup k at index k
initialCups == [k \in Indices |-> k]

\* the arrays that hold each cup once
Arrangements ==
    {c \in [Indices -> Indices] : \A a, b \in Indices : c[a] = c[b] => a = b}

noFrame == [i |-> 0, index1 |-> 0, index2 |-> 0, cup1 |-> 0, cup2 |-> 0,
            task1 |-> 0, task2 |-> 0, ret |-> "", cupIndex |-> 0]

noSel == [cupIndex |-> 0, ball |-> 0, score |-> 0, gamesPlayed |-> 0]

noTrack == [ball0 |-> 0, cup0 |-> 0, replayed |-> 0, before |-> initialCups,
            cups0 |-> initialCups, swaps |-> <<>>, ballBefore |-> 0,
            started |-> 0, committed |-> 0, counted |-> 0, sel |-> noSel,
            accepted |-> 0]

\* Math.round for Math.floor
randomIndexRounded == 0 .. CUP_COUNT

\* Math.floor(Math.random() * CUP_COUNT)
randomIndex == Indices

\* the module's state before init() has run
GameAbsent ==
    /\ intervals = 0
    /\ cups = initialCups
    /\ ballPosition = 0
    /\ isShuffling = FALSE
    /\ isRevealing = FALSE
    /\ canSelect = FALSE
    /\ score = 0
    /\ gamesPlayed = 0
    /\ playButtonVisible = FALSE
    /\ pc = "absent"
    /\ frame = noFrame
    /\ track = noTrack

\* the game after init(): the play button waits for its first click
GameInit ==
    /\ intervals = 0
    /\ cups = initialCups
    /\ ballPosition \in randomIndex
    /\ isShuffling = FALSE
    /\ isRevealing = FALSE
    /\ canSelect = FALSE
    /\ score = 0
    /\ gamesPlayed = 0
    /\ playButtonVisible = TRUE
    /\ pc = "idle"
    /\ frame = noFrame
    /\ track = noTrack

\* the second assignment reads the slot the first one has just written
swapInArrayClobber(c, index1, index2, cup1, cup2) ==
    [c EXCEPT ![index1] = cup2, ![index2] = cup2]

\* cups[index1] = cup2; cups[index2] = cup1
swapInArray(c, index1, index2, cup1, cup2) ==
    [c EXCEPT ![index1] = cup2, ![index2] = cup1]

\* only the first of the two tests: a ball under the cup at index2 stays
ballAfterSwapFirstOnly(b, index1, index2) ==
    IF b = index1 THEN index2 ELSE b

\* two ifs in a row: a ball moved to index2 is moved back at once
ballAfterSwapNoElse(b, index1, index2) ==
    LET first == IF b = index1 THEN index2 ELSE b
    IN  IF first = index2 THEN index1 ELSE first

\* the ball follows the cup it is under
ballAfterSwap(b, index1, index2) ==
    IF b = index1 THEN index2
    ELSE IF b = index2 THEN index1
    ELSE b

\* where a ball at b ends when the swaps of pairs are made in order
RECURSIVE Replay(_, _)
Replay(pairs, b) ==
    IF pairs = <<>> THEN b
    ELSE Replay(Tail(pairs),
                IF b = Head(pairs)[1] THEN Head(pairs)[2]
                ELSE IF b = Head(pairs)[2] THEN Head(pairs)[1]
                ELSE b)

\* the game's operation op(arg) ran; it touches neither the store, the
\* panel nor the subscribers
Ran(op, arg) ==
    /\ lastCall' = Call(op, arg)
    /\ UNCHANGED <<storeVars, panelVars, notified, obsVars, hadBet>>

\* swapCups(index1, index2) up to its await: both cups are read and the two
\* motions started; ret is where the caller resumes
swapCupsCall(f, index1, index2, ret) ==
    [f EXCEPT !.index1 = index1, !.index2 = index2,
              !.cup1 = cups[index1], !.cup2 = cups[index2],
              !.task1 = 0, !.task2 = 0, !.ret = ret]

\* history of a call of swapCups: the array and the ball's index at the call
trackCall(t) ==
    [t EXCEPT !.before = cups, !.ballBefore = ballPosition,
              !.started = @ + 1]

\* the button stays on screen
playButtonLeftOnStart == TRUE

\* playButton.visible = false
playButtonOnStart == FALSE

\* startGame() up to its first await; redraw: the ball's index is drawn anew
startGame(redraw) ==
    /\ playButtonVisible' = playButtonOnStart
    /\ ballPosition' \in IF redraw THEN randomIndex ELSE {ballPosition}
    /\ pc' = "peek"
    /\ UNCHANGED <<intervals, cups, isShuffling, isRevealing, canSelect, score,
                   gamesPlayed, frame, track>>

\* pointerdown on the play button, which is on screen
StartGame ==
    /\ playButtonVisible
    /\ gamesPlayed < MaxGames
    /\ startGame(gamesPlayed = 0)
    /\ Ran("click.play", 0)

\* the same in the second copy of the game, which draws the index each round
StartGame2 ==
    /\ playButtonVisible
    /\ gamesPlayed < MaxGames
    /\ startGame(TRUE)
    /\ Ran("click.play", 0)

\* pointerdown where the hidden play button is: no handler runs
PlayHidden ==
    /\ pc # "absent"
    /\ ~playButtonVisible
    /\ UNCHANGED gameVars
    /\ Ran("click.play.hidden", 0)

ClickPlay == StartGame \/ PlayHidden

ClickPlay2 == StartGame2 \/ PlayHidden

\* the cup over the ball has been lifted and lowered: shuffleCups() begins
BeginShuffle ==
    /\ pc = "peek"
    /\ isShuffling' = TRUE
    /\ frame' = [noFrame EXCEPT !.i = 0]
    /\ track' = [noTrack EXCEPT !.ball0 = ballPosition,
                                !.cup0 = cups[ballPosition],
                                !.replayed = ballPosition,
                                !.cups0 = cups,
                                !.before = cups,
                                !.ballBefore = ballPosition,
                                !.accepted = track.accepted]
    /\ pc' = "shuffle"
    /\ UNCHANGED <<intervals, cups, ballPosition, isRevealing, canSelect, score,
                   gamesPlayed, playButtonVisible>>
    /\ Ran("shuffleCups", 0)

\* the loop goes on without waiting for the swap it has called
loopNotAwaiting(p) == p \in {"shuffle", "swap"}

\* the loop runs its next turn once the swapCups it awaits has returned
loopResumed(p) == p = "shuffle"

\* one turn too many
shuffleMoreInclusive(i) == i <= SHUFFLE_COUNT

\* i < SHUFFLE_COUNT
shuffleMore(i) == i < SHUFFLE_COUNT

\* the second index drawn once, whatever the first
secondIndexAny(idx1) == randomIndex

\* do { idx2 = random } while (idx2 === idx1): any index but idx1
secondIndex(idx1) == randomIndex \ {idx1}

\* the interval is never stopped
keepInterval(n) == n

\* clearInterval(trailInterval)
clearInterval(n) == n - 1

\* setInterval(..., 40): one more interval is running
setInterval(n) == n + 1

\* one turn of the loop: two different random indices, swapCups called
pickSwap ==
    /\ loopResumed(pc)
    /\ shuffleMore(frame.i)
    /\ \E idx1 \in randomIndex :
           \E idx2 \in secondIndex(idx1) :
               frame' = swapCupsCall(frame, idx1, idx2, "shuffle")
    /\ track' = trackCall(track)
    /\ pc' = "swap"
    /\ UNCHANGED <<cups, ballPosition, isShuffling, isRevealing, canSelect,
                   score, gamesPlayed, playButtonVisible>>
    /\ Ran("swapCups", 0)

\* the first copy of the game: the trail interval is commented out
PickSwap ==
    /\ pickSwap
    /\ UNCHANGED intervals

\* the second copy: swapCups starts its trail interval
PickSwap2 ==
    /\ pickSwap
    /\ intervals' = setInterval(intervals)

\* an animate() of the first cup's motion has resolved
MoveCup1 ==
    /\ pc = "swap"
    /\ frame.task1 < 2
    /\ frame' = [frame EXCEPT !.task1 = @ + 1]
    /\ UNCHANGED <<intervals, cups, ballPosition, isShuffling, isRevealing, canSelect,
                   score, gamesPlayed, playButtonVisible, pc, track>>
    /\ Ran("animate.cup1", 0)

\* an animate() of the second cup's motion has resolved
MoveCup2 ==
    /\ pc = "swap"
    /\ frame.task2 < 2
    /\ frame' = [frame EXCEPT !.task2 = @ + 1]
    /\ UNCHANGED <<intervals, cups, ballPosition, isShuffling, isRevealing, canSelect,
                   score, gamesPlayed, playButtonVisible, pc, track>>
    /\ Ran("animate.cup2", 0)

\* the swap goes on as soon as the first cup has arrived
firstResolved(f) == f.task1 = 2

\* Promise.all of the two motions: each has run both its animate() calls
bothResolved(f) == f.task1 = 2 /\ f.task2 = 2

\* Promise.all has resolved: the array and the ball's index are updated and
\* swapCups returns to its caller
swapCommit ==
    /\ pc = "swap"
    /\ bothResolved(frame)
    /\ cups' = swapInArray(cups, frame.index1, frame.index2,
                           frame.cup1, frame.cup2)
    /\ ballPosition' = ballAfterSwap(ballPosition, frame.index1, frame.index2)
    /\ track' =
         [track EXCEPT
            !.replayed = Replay(<<<<frame.index1, frame.index2>>>>, @),
            !.committed = @ + 1,
            !.swaps = IF frame.ret = "called"
                      THEN Append(@, <<frame.index1, frame.index2>>)
                      ELSE @]
    /\ frame' = [noFrame EXCEPT !.i = frame.i + 1,
                                !.index1 = frame.index1,
                                !.index2 = frame.index2]
    /\ pc' = frame.ret
    /\ UNCHANGED <<isShuffling, isRevealing, canSelect, score, gamesPlayed,
                   playButtonVisible>>
    /\ Ran("swapCups.commit", 0)

\* the first copy of the game: no interval to clear
SwapCommit ==
    /\ swapCommit
    /\ UNCHANGED intervals

\* the second copy: the trail interval is cleared before the array is updated
SwapCommit2 ==
    /\ swapCommit
    /\ intervals' = clearInterval(intervals)

\* the loop has made its turns: shuffleCups() returns and startGame() lets
\* the player select
EndShuffle ==
    /\ loopResumed(pc)
    /\ ~shuffleMore(frame.i)
    /\ isShuffling' = FALSE
    /\ canSelect' = TRUE
    /\ frame' = noFrame
    /\ pc' = "select"
    /\ UNCHANGED <<intervals, cups, ballPosition, isRevealing, score, gamesPlayed,
                   playButtonVisible, track>>
    /\ Ran("shuffleCups.return", 0)

\* the test without canSelect
selectIgnoredWhileBusy == isShuffling \/ isRevealing

\* if (!canSelect || isShuffling || isRevealing) return
selectIgnored == ~canSelect \/ isShuffling \/ isRevealing

\* pointerdown on a cup: selectCup(cups.indexOf(cup)) up to its first await
ClickCup ==
    \E cupIndex \in Indices :
        /\ pc # "absent"
        /\ IF selectIgnored
           THEN /\ UNCHANGED gameVars
                /\ Ran("click.cup.ignored", 0)
           ELSE /\ canSelect' = FALSE
                /\ isRevealing' = TRUE
                /\ frame' = [noFrame EXCEPT !.cupIndex = cupIndex]
                /\ track' = [track EXCEPT
                               !.sel = [cupIndex |-> cupIndex,
                                        ball |-> ballPosition,
                                        score |-> score,
                                        gamesPlayed |-> gamesPlayed],
                               !.accepted = @ + 1]
                /\ pc' = "reveal"
                /\ UNCHANGED <<intervals, cups, ballPosition, isShuffling, score,
                               gamesPlayed, playButtonVisible>>
                /\ Ran("click.cup", cupIndex)

\* a point for every selection
scoreAfterAlways(s, cupIndex, b) == s + 1

\* if (cupIndex === ballPosition) score++
scoreAfter(s, cupIndex, b) == IF cupIndex = b THEN s + 1 ELSE s

\* the round counted twice
gamesPlayedTwice(g) == g + 2

\* gamesPlayed++
gamesPlayedAfter(g) == g + 1

\* the selected cup has been lifted: the round is counted, and scored when
\* the ball is under it; otherwise the cup over the ball is lifted next
RevealSelected ==
    /\ pc = "reveal"
    /\ gamesPlayed' = gamesPlayedAfter(gamesPlayed)
    /\ score' = scoreAfter(score, frame.cupIndex, ballPosition)
    /\ track' = [track EXCEPT !.counted = @ + 1]
    /\ IF frame.cupIndex = ballPosition
       THEN /\ playButtonVisible' = TRUE
            /\ isRevealing' = FALSE
            /\ frame' = noFrame
            /\ pc' = "idle"
       ELSE /\ pc' = "reveal.ball"
            /\ UNCHANGED <<playButtonVisible, isRevealing, frame>>
    /\ UNCHANGED <<intervals, cups, ballPosition, isShuffling, canSelect>>
    /\ Ran("selectCup.lifted", 0)

\* the cup over the ball has been lifted too: the play button comes back
RevealBall ==
    /\ pc = "reveal.ball"
    /\ playButtonVisible' = TRUE
    /\ isRevealing' = FALSE
    /\ frame' = noFrame
    /\ pc' = "idle"
    /\ UNCHANGED <<intervals, cups, ballPosition, isShuffling, canSelect, score,
                   gamesPlayed, track>>
    /\ Ran("selectCup.return", 0)

\* swapCups(index1, index2) called on its own
CallSwapCups ==
    /\ pc = "called"
    /\ Len(track.swaps) < MaxSwaps
    /\ \E index1 \in Indices :
           \E index2 \in Indices \ {index1} :
               frame' = swapCupsCall(frame, index1, index2, "called")
    /\ track' = trackCall(track)
    /\ pc' = "swap"
    /\ UNCHANGED <<intervals, cups, ballPosition, isShuffling, isRevealing,
                   canSelect, score, gamesPlayed, playButtonVisible>>
    /\ Ran("swapCups", 0)

\* any arrangement of the cups and any index of the ball, no round running
SwapsInit ==
    /\ intervals = 0
    /\ cups \in Arrangements
    /\ ballPosition \in Indices
    /\ isShuffling = FALSE
    /\ isRevealing = FALSE
    /\ canSelect = FALSE
    /\ score = 0
    /\ gamesPlayed = 0
    /\ playButtonVisible = TRUE
    /\ pc = "called"
    /\ frame = noFrame
    /\ track = [noTrack EXCEPT !.ball0 = ballPosition,
                               !.cup0 = cups[ballPosition],
                               !.replayed = ballPosition,
                               !.cups0 = cups,
                               !.before = cups,
                               !.ballBefore = ballPosition]

BettingInit ==
    /\ sessionToken = null
    /\ userId = null
    /\ providerId = null
    /\ balance = InitialBalance * Scale
    /\ currency = "USD"
    /\ currentBetAmount = 0
    /\ isBetting = FALSE
    /\ lastBet = nullBet
    /\ isConnected = TRUE
    /\ connectionError = null
    /\ disabled = [decreaseBtn |-> FALSE, increaseBtn |-> FALSE,
                   betInput |-> FALSE, refreshBtn |-> FALSE,
                   quickBtns |-> FALSE, placeBetBtn |-> FALSE]
    /\ isEditing = FALSE
    /\ lastCall = Call("constructor", 0)
    /\ notified = 0
    /\ hadBet = FALSE
    /\ ObsInit

\* the store and the panel, on a page that does not run the game
Init == BettingInit /\ GameAbsent

(* -------------------------------------------- store operations as steps *)
UpdateBalance ==
    \E b \in BalanceInputs, c \in CurrencyArgs :
        /\ updateBalance(b, c)
        /\ Did("updateBalance", b)
        /\ notified' = 1

SetBetAmount ==
    \E a \in AmountInputs :
        /\ setBetAmount(a)
        /\ Did("setBetAmount", a)
        /\ notified' = 1

IncreaseBetStep ==
    \E s \in StepInputs :
        /\ increaseBet(s)
        /\ Did("increaseBet", s)
        /\ notified' = 1

DecreaseBetStep ==
    \E s \in StepInputs :
        /\ decreaseBet(s)
        /\ Did("decreaseBet", s)
        /\ notified' = 1

\* the bound on the walk of the bet in steps: the resulting bet is explored
\* when it is within MaxWalkSteps default steps of 0 or is the full balance
InWalk(bet) == bet <= MaxWalkSteps * DefaultStep * Scale \/ bet >= balance

IncreaseBet == IncreaseBetStep /\ InWalk(currentBetAmount')

DecreaseBet == DecreaseBetStep /\ InWalk(currentBetAmount')

SetMaxBet ==
    /\ setMaxBet
    /\ Did("setMaxBet", 0)
    /\ notified' = 1

SetSession ==
    \E t \in TokenInputs :
        /\ setSession(t)
        /\ Did("setSession", 0)
        /\ notified' = 1

SetIdentity ==
    \E data \in IdentityInputs :
        /\ setIdentity(data)
        /\ Did("setIdentity", 0)
        /\ notified' = 1

StartBetting ==
    /\ startBetting
    /\ Did("startBetting", 0)
    /\ notified' = 1

ConfirmBet ==
    \E r \in BetRecords :
        /\ confirmBet(r)
        /\ Did("confirmBet", r)
        /\ notified' = 1

BetError ==
    \E e \in ErrorInputs :
        /\ betError(e)
        /\ Did("betError", 0)
        /\ notified' = 1

SetConnected ==
    \E c \in BOOLEAN :
        /\ setConnected(c)
        /\ Did("setConnected", IF c THEN 1 ELSE 0)
        /\ notified' = 1

SetConnectionError ==
    \E e \in ErrorInputs :
        /\ setConnectionError(e)
        /\ Did("setConnectionError", 0)
        /\ notified' = 1

StoreNext ==
    \/ UpdateBalance
    \/ SetBetAmount
    \/ IncreaseBet
    \/ DecreaseBet
    \/ SetMaxBet
    \/ SetSession
    \/ SetIdentity
    \/ StartBetting
    \/ ConfirmBet
    \/ BetError
    \/ SetConnected
    \/ SetConnectionError

(* ------------------------------------------------ betting panel handlers *)
\* a handler that returns without touching the store or the widgets
ignored == UNCHANGED <<storeVars, panelVars>>

ClickDecrease ==
    /\ IF ~disabled.decreaseBtn
       THEN /\ decreaseBet(DefaultStep * Scale)
            /\ InWalk(currentBetAmount')
            /\ notified' = 1
       ELSE ignored /\ notified' = 0
    /\ Did("click.decrease", 0)

ClickIncrease ==
    /\ IF ~disabled.increaseBtn
       THEN /\ increaseBet(DefaultStep * Scale)
            /\ InWalk(currentBetAmount')
            /\ notified' = 1
       ELSE ignored /\ notified' = 0
    /\ Did("click.increase", 0)

ClickQuickBet ==
    \E a \in QuickBetAmounts :
        /\ IF ~disabled.quickBtns
           THEN setBetAmount(a) /\ notified' = 1
           ELSE ignored /\ notified' = 0
        /\ Did("click.quick", a)

ClickMax ==
    /\ IF ~disabled.quickBtns
       THEN setMaxBet /\ notified' = 1
       ELSE ignored /\ notified' = 0
    /\ Did("click.max", 0)

\* pointerdown on the amount input: enter edit mode
ClickInput ==
    /\ IF ~disabled.betInput
       THEN isEditing' = TRUE /\ UNCHANGED <<storeVars, disabled>>
       ELSE ignored
    /\ notified' = 0
    /\ Did("click.input", 0)

\* Enter in the amount input; numValue is parseFloat(inputText) || 0 of the
\* digits and dots typed, which is never negative
KeyEnter ==
    \E numValue \in TypedAmounts :
        /\ IF isEditing /\ ~disabled.betInput
           THEN /\ setBetAmountBody(numValue)
                /\ disabled' = panelRender(this')
                /\ isEditing' = FALSE
                /\ notified' = 1
           ELSE ignored /\ notified' = 0
        /\ Did("key.enter", numValue)

KeyEscape ==
    /\ IF isEditing /\ ~disabled.betInput
       THEN isEditing' = FALSE /\ UNCHANGED <<storeVars, disabled>>
       ELSE ignored
    /\ notified' = 0
    /\ Did("key.escape", 0)

\* the amount the place-bet handler puts in the record
placeBetAmount ==
    IF currentBetAmount = 0 \/ currentBetAmount < MinPlaceBet * Scale
    THEN DefaultBet * Scale
    ELSE currentBetAmount

\* pointerdown on the place-bet button; hasCallback: callbacks.onPlaceBet
\* is set at the time of the click
ClickPlaceBet ==
    \E hasCallback \in BOOLEAN :
        IF ~disabled.placeBetBtn /\ canBet
        THEN LET raised == currentBetAmount = 0
                           \/ currentBetAmount < MinPlaceBet * Scale
                 bet == IF raised THEN clampBet(DefaultBet * Scale)
                                  ELSE currentBetAmount
             IN /\ currentBetAmount' = bet
                /\ isBetting' = hasCallback
                /\ UNCHANGED <<sessionToken, userId, providerId, balance,
                               currency, lastBet, isConnected,
                               connectionError>>
                /\ IF raised
                   THEN notify([this EXCEPT !.currentBetAmount = bet])
                   ELSE UNCHANGED <<disabled, isEditing>>
                /\ notified' = IF raised THEN 1 ELSE 0
                /\ lastCall' =
                     IF hasCallback
                     THEN Call("click.placeBet",
                               [session |-> userId, bet |-> placeBetAmount,
                                currency |-> currency])
                     ELSE Call("click.placeBet", nullBet)
                /\ hadBet' = (hadBet \/ currentBetAmount' # 0)
                /\ UNCHANGED <<obsVars, gameVars>>
        ELSE /\ ignored
             /\ notified' = 0
             /\ Did("click.placeBet.ignored", 0)

(* ------------------------------------------------- panel public methods *)
PanelUpdateBalance ==
    \E b \in BalanceInputs, c \in CurrencyArgs :
        /\ updateBalance(b, c)
        /\ Did("panel.updateBalance", b)
        /\ notified' = 1

PanelConfirmBet ==
    \E r \in BetRecords :
        /\ lastBet' = r
        /\ isBetting' = FALSE
        /\ UNCHANGED <<sessionToken, userId, providerId, balance, currency,
                       currentBetAmount, isConnected, connectionError>>
        /\ notify(this')
        /\ Did("panel.confirmBet", r)
        /\ notified' = 1

PanelBetError ==
    /\ isBetting' = FALSE
    /\ UNCHANGED <<sessionToken, userId, providerId, balance, currency,
                   currentBetAmount, lastBet, isConnected, connectionError>>
    /\ notify(this')
    /\ Did("panel.betError", 0)
    /\ notified' = 1

PanelSetUserId ==
    \E id \in UserIdInputs :
        /\ userId' = id
        /\ UNCHANGED <<sessionToken, providerId, balance, currency,
                       currentBetAmount, isBetting, lastBet, isConnected,
                       connectionError, panelVars>>
        /\ Did("panel.setUserId", 0)
        /\ notified' = 0

PanelSetConnected ==
    \E c \in BOOLEAN :
        /\ isConnected' = c
        /\ UNCHANGED <<sessionToken, userId, providerId, balance, currency,
                       currentBetAmount, isBetting, lastBet, connectionError>>
        /\ notify(this')
        /\ Did("panel.setConnected", IF c THEN 1 ELSE 0)
        /\ notified' = 1

PanelNext ==
    \/ ClickDecrease
    \/ ClickIncrease
    \/ ClickQuickBet
    \/ ClickMax
    \/ ClickInput
    \/ KeyEnter
    \/ KeyEscape
    \/ ClickPlaceBet
    \/ PanelUpdateBalance
    \/ PanelConfirmBet
    \/ PanelBetError
    \/ PanelSetUserId
    \/ PanelSetConnected

Next == StoreNext \/ PanelNext

\* the store and the panel built on it
Spec == Init /\ [][Next]_vars

\* the store driven through its own operations only
SpecStore == Init /\ [][StoreNext]_vars

\* the store driven through the four bet-sizing operations only
BetNext ==
    \/ SetBetAmount
    \/ IncreaseBetStep
    \/ DecreaseBetStep
    \/ SetMaxBet

SpecBets == Init /\ [][BetNext]_vars

ObsNext ==
    \/ Subscribe
    \/ Unsubscribe
    \/ NotifyStartBetting
    \/ NotifyBetError
    \/ NotifyCall
    \/ NotifyReturn

\* the store with subscribers that subscribe and unsubscribe, one callback
\* at a time
SpecObs == Init /\ [][ObsNext]_vars

GameNext ==
    \/ ClickPlay
    \/ BeginShuffle
    \/ PickSwap
    \/ MoveCup1
    \/ MoveCup2
    \/ SwapCommit
    \/ EndShuffle
    \/ ClickCup
    \/ RevealSelected
    \/ RevealBall

\* the page that runs the game; nothing calls the store
InitGame == BettingInit /\ GameInit

\* the game from init() on, round after round
SpecGame == InitGame /\ [][GameNext]_vars

\* the ticker and the timers keep firing, so every step the page takes by
\* itself is taken once it can be; clicks are the player's and may never come
GameFairness ==
    /\ WF_vars(BeginShuffle)
    /\ WF_vars(PickSwap)
    /\ WF_vars(MoveCup1)
    /\ WF_vars(MoveCup2)
    /\ WF_vars(SwapCommit)
    /\ WF_vars(EndShuffle)
    /\ WF_vars(RevealSelected)
    /\ WF_vars(RevealBall)

SpecGameFair == InitGame /\ [][GameNext]_vars /\ GameFairness

GameNext2 ==
    \/ ClickPlay2
    \/ BeginShuffle
    \/ PickSwap2
    \/ MoveCup1
    \/ MoveCup2
    \/ SwapCommit2
    \/ EndShuffle
    \/ ClickCup
    \/ RevealSelected
    \/ RevealBall

\* the second copy of the game in main.js, round after round
SpecGame2 == InitGame /\ [][GameNext2]_vars

SwapsNext ==
    \/ CallSwapCups
    \/ MoveCup1
    \/ MoveCup2
    \/ SwapCommit

InitSwaps == BettingInit /\ SwapsInit

\* swapCups called with any two different indices, from any arrangement
SpecSwaps == InitSwaps /\ [][SwapsNext]_vars

(* ================================================================ claims *)
StoreMutators ==
    {"updateBalance", "setBetAmount", "increaseBet", "decreaseBet",
     "setMaxBet", "startBetting", "confirmBet", "betError", "setConnected",
     "setConnectionError", "setIdentity", "setSession"}

BetWithinBalance == 0 <= currentBetAmount /\ currentBetAmount <= balance

\* C1: after any mutator of the store has returned, the bet amount lies
\* between 0 and the balance.
C1_BetWithinBalanceAfterMutator ==
    lastCall.op \in StoreMutators => BetWithinBalance

\* C2: from the initial store, after each call of a sequence of setBetAmount,
\* increaseBet, decreaseBet and setMaxBet calls the bet amount lies between 0
\* and the balance, which is still the initial 1000.
C2_BetSizingKeepsRange ==
    /\ balance = InitialBalance * Scale
    /\ 0 <= currentBetAmount
    /\ currentBetAmount <= InitialBalance * Scale

\* setBetAmount(5000) has run on the balance of 1000 and the bet was cut to
\* the balance
C2_Witness ==
    /\ lastCall = Call("setBetAmount", 5000 * Scale)
    /\ currentBetAmount = balance

\* C3: in every state reached through the store's and the panel's
\* operations, a connected store holds no connection error.
C3_ConnectedHasNoError == isConnected => connectionError = null

\* C4: setConnectionError(e) leaves the store disconnected; setConnected(true)
\* leaves it without a connection error; setConnected(false) leaves the
\* stored connection error as it was.
C4_ConnectivityOperations ==
    [][/\ lastCall'.op = "setConnectionError" => ~isConnected'
       /\ (lastCall'.op = "setConnected" /\ lastCall'.arg = 1)
            => (isConnected' /\ connectionError' = null)
       /\ (lastCall'.op = "setConnected" /\ lastCall'.arg = 0)
            => (~isConnected' /\ connectionError' = connectionError)]_vars

\* setConnected(false) has run on a store holding an error, and the error is
\* still there
C4_Witness ==
    /\ lastCall = Call("setConnected", 0)
    /\ connectionError = "err"
    /\ ~isConnected

\* the conditions of canBet other than the in-flight flag
C5_Eligible ==
    isConnected /\ balance > 0 /\ 0 < currentBetAmount
    /\ currentBetAmount <= balance

\* C5: from startBetting() on, canBet is false in every state until confirmBet
\* or betError is called, whatever other store operations run in between;
\* right after confirmBet or betError no bet is in flight and canBet is true
\* exactly when connected, balance > 0 and 0 < bet <= balance.
C5_CanBetGatedByFlight ==
    [][/\ lastCall'.op = "startBetting" => (isBetting' /\ ~canBet')
       /\ (isBetting /\ lastCall'.op \notin {"confirmBet", "betError"})
            => (isBetting' /\ ~canBet')
       /\ lastCall'.op \in {"confirmBet", "betError"}
            => (~isBetting' /\ (canBet' <=> C5_Eligible'))]_vars

\* a bet is in flight and another operation has just run, leaving a store
\* that would be eligible were no bet in flight
C5_Witness ==
    /\ isBetting
    /\ lastCall = Call("setBetAmount", 10 * Scale)
    /\ C5_Eligible
    /\ ~canBet

\* C6: the derived flags equal their definitions (isAuthenticated is true
\* whatever sessionToken and userId are), and the flags a subscriber reads
\* when notified are these.
C6_DerivedFlags ==
    /\ isAuthenticated
    /\ canBet <=> (isConnected /\ balance > 0 /\ 0 < currentBetAmount
                   /\ currentBetAmount <= balance /\ ~isBetting)
    /\ canIncrease <=> (~isBetting /\ currentBetAmount < balance)
    /\ canDecrease <=> (~isBetting /\ currentBetAmount > 0)
    /\ notified = 1 =>
         /\ disabled.placeBetBtn <=>
              ~(isConnected /\ balance > 0 /\ 0 < currentBetAmount
                /\ currentBetAmount <= balance /\ ~isBetting)
         /\ disabled.increaseBtn <=>
              ~(~isBetting /\ currentBetAmount < balance)
         /\ disabled.decreaseBtn <=>
              ~(~isBetting /\ currentBetAmount > 0)

\* a store with neither session token nor user id can bet, and its bet equals
\* its balance, so that it cannot be increased
C6_Witness ==
    /\ sessionToken = null
    /\ userId = null
    /\ canBet
    /\ currentBetAmount = balance
    /\ ~canIncrease
    /\ canDecrease
    /\ lastCall.op = "setMaxBet"

StartCalls == {"startBetting", "click.placeBet"}
TerminalCalls == {"confirmBet", "betError", "panel.confirmBet",
                  "panel.betError"}

\* C7: isBetting becomes true only by startBetting or an accepted place-bet
\* click and becomes false only by confirmBet or betError; startBetting
\* leaves it true and the terminal operations leave it false; every other
\* operation of the store or the panel leaves it as it was.
C7_FlightOnlyStartToTerminal ==
    [][/\ (~isBetting /\ isBetting') => lastCall'.op \in StartCalls
       /\ (isBetting /\ ~isBetting') => lastCall'.op \in TerminalCalls
       /\ lastCall'.op = "startBetting" => isBetting'
       /\ lastCall'.op \in TerminalCalls => ~isBetting'
       /\ lastCall'.op \notin (StartCalls \cup TerminalCalls)
            => isBetting' = isBetting]_vars

\* a bet is still in flight after setConnectionError has run: the
\* connection was lost and the bet was not dropped
C7_Witness ==
    /\ isBetting
    /\ lastCall.op = "setConnectionError"
    /\ ~isConnected

\* C8: updateBalance(b, c) sets the balance to b; it changes the bet amount
\* only when the bet amount was exactly 0 and b > 0, and then to min(10, b).
C8_UpdateBalanceSeedsOnce ==
    [][lastCall'.op = "updateBalance" =>
         /\ balance' = lastCall'.arg
         /\ currentBetAmount' =
              IF currentBetAmount = 0 /\ lastCall'.arg > 0
              THEN (IF lastCall'.arg < 10 * Scale THEN lastCall'.arg
                                                  ELSE 10 * Scale)
              ELSE currentBetAmount]_vars

\* updateBalance(1000) has run and the bet is the seeded 10
C8_Witness ==
    /\ lastCall = Call("updateBalance", 1000 * Scale)
    /\ balance = 1000 * Scale
    /\ currentBetAmount = 10 * Scale

\* C9: setBetAmount(a) stores 0 when a < 0, the balance when a > balance and
\* a otherwise, and notifies the subscribers exactly once.
C9_SetBetAmountClamps ==
    [][lastCall'.op = "setBetAmount" =>
         /\ currentBetAmount' =
              IF lastCall'.arg < 0 THEN 0
              ELSE IF lastCall'.arg > balance THEN balance
              ELSE lastCall'.arg
         /\ notified' = 1]_vars

\* C10: increaseBet(step) and decreaseBet(step) leave the store as
\* setBetAmount(current + step) and setBetAmount(current - step) do, the bet
\* clamped and every other field untouched, with one notification of the new
\* state; increaseBet at bet = balance and decreaseBet at bet = 0 leave the
\* bet unchanged.
C10_StepsDelegateToSetBetAmount ==
    [][/\ lastCall'.op = "increaseBet" =>
            /\ currentBetAmount' = clampBet(currentBetAmount + lastCall'.arg)
            /\ currentBetAmount = balance => currentBetAmount' = currentBetAmount
       /\ lastCall'.op = "decreaseBet" =>
            /\ currentBetAmount' = clampBet(currentBetAmount - lastCall'.arg)
            /\ currentBetAmount = 0 => currentBetAmount' = currentBetAmount
       /\ lastCall'.op \in {"increaseBet", "decreaseBet"} =>
            /\ UNCHANGED <<sessionToken, userId, providerId, balance,
                           currency, isBetting, lastBet, isConnected,
                           connectionError>>
            /\ notified' = 1
            /\ disabled' = panelRender(this')]_vars

\* increaseBet() with the default step has run on a bet equal to the balance
\* of 1000 (no smaller bet is within one default step of it)
C10_Witness ==
    /\ lastCall = Call("increaseBet", DefaultStep * Scale)
    /\ balance = InitialBalance * Scale
    /\ currentBetAmount = balance

\* C11: after setMaxBet() the bet amount equals the full balance.
C11_MaxBetIsBalance ==
    lastCall.op = "setMaxBet" => currentBetAmount = balance

\* C12: the balance is never below 0.
C12_BalanceNonNegative == balance >= 0

\* C13: a notify() pass invokes the callbacks that were subscribed when it
\* began, one invocation for each subscription, in the order they were
\* subscribed, and hands each one the store as it is at that moment: the
\* invocations so far are the first of them, and all of them once the pass
\* has returned.
C13_PassInvokesSubscribedInOrder ==
    /\ Invoked(log) =
           SubSeq(hist.atStart, 1,
                  IF pass.active THEN pass.pos ELSE Len(hist.atStart))
    /\ \A k \in DOMAIN log : log[k].seen = this

\* a returned pass that invoked two different callbacks, second subscribed
\* first invoked second
C13_Witness ==
    /\ ~pass.active
    /\ Invoked(log) = <<"b", "a">>
    /\ isBetting

\* C14: a pass in which a callback called an unsubscribe function still
\* invokes every callback that was subscribed when the pass began, and no
\* pass invokes a callback that was unsubscribed (and not subscribed again)
\* before that pass began.
C14_UnsubscribeSparesRunningPass ==
    /\ (~pass.active /\ hist.unsubInPass) => Invoked(log) = hist.atStart
    /\ \A k \in DOMAIN log : log[k].cb \notin hist.staleAtStart

\* a returned pass in which the second callback was unsubscribed and
\* invoked all the same
C14_Witness ==
    /\ ~pass.active
    /\ hist.unsubInPass
    /\ Invoked(log) = <<"a", "b">>
    /\ listeners = <<"a">>

\* C15: a callback subscribed during a pass (and not subscribed when the
\* pass began) is not invoked in that pass, and when still subscribed it is
\* invoked in the next pass, whether or not an unsubscribe function was
\* called in the pass that subscribed it.
C15_SubscribedInPassWaitsForNext ==
    /\ \A k \in DOMAIN log :
           log[k].cb \notin (hist.addedInPass \ Range(hist.atStart))
    /\ ~pass.active => hist.due \subseteq Range(Invoked(log))

\* a returned pass that invoked a callback subscribed during the pass
\* before it, a pass in which an unsubscribe function was called too
C15_Witness ==
    /\ ~pass.active
    /\ hist.due = {"b"}
    /\ hist.dueUnsub
    /\ "b" \in Range(Invoked(log))

\* C16: after a place-bet click that was accepted and handed its record to
\* onPlaceBet, the store is in flight and its subscribers have been notified
\* of that state: the panel shows what its listener renders from the store
\* as it is now.
C16_AcceptedPlaceBetNotifies ==
    (lastCall.op = "click.placeBet" /\ lastCall.arg # nullBet)
        => (isBetting /\ disabled = panelRender(this))

\* C17: a place-bet click while a bet is in flight is ignored (the store and
\* the panel keep their values and no notify() pass is made), onPlaceBet is
\* invoked only by a click made while no bet is in flight, which puts one in
\* flight, and a bet stops being in flight only by confirmBet or betError.
C17_PlaceBetIgnoredInFlight ==
    [][/\ (lastCall'.op \in {"click.placeBet", "click.placeBet.ignored"}
             /\ isBetting)
          => /\ lastCall'.op = "click.placeBet.ignored"
             /\ UNCHANGED <<storeVars, panelVars>>
             /\ notified' = 0
       /\ (lastCall'.op = "click.placeBet" /\ lastCall'.arg # nullBet)
          => (~isBetting /\ isBetting')
       /\ (isBetting /\ ~isBetting') => lastCall'.op \in TerminalCalls]_vars

\* a click on the enabled place-bet button was ignored while a bet was in
\* flight
C17_Witness ==
    /\ lastCall.op = "click.placeBet.ignored"
    /\ isBetting
    /\ ~disabled.placeBetBtn

\* C18: when a call swapCups(i, j) with i # j has returned, the array holds
\* each of the N cups once, the cups at i and j have changed places and the
\* cup at every other index is the one that was there at the call.
C18_SwapExchangesTwoCups ==
    (pc = "called" /\ track.swaps # <<>>) =>
        /\ cups \in Arrangements
        /\ cups[frame.index1] = track.before[frame.index2]
        /\ cups[frame.index2] = track.before[frame.index1]
        /\ \A k \in Indices \ {frame.index1, frame.index2} :
               cups[k] = track.before[k]

\* swapCups(2, 0) has returned on an array that was not in its first order
C18_Witness ==
    /\ pc = "called"
    /\ track.swaps # <<>>
    /\ frame.index1 = 2
    /\ frame.index2 = 0
    /\ track.before # initialCups
    /\ cups # track.before

\* C19: after two calls of swapCups with the same pair of indices the array
\* and ballPosition are what they were before the first call.
C19_SwapTwiceRestores ==
    (pc = "called" /\ Len(track.swaps) = 2 /\ track.swaps[1] = track.swaps[2])
        => (cups = track.cups0 /\ ballPosition = track.ball0)

\* the pair (0, 1) was swapped twice with the ball under one of the two
\* cups: the first swap moved the ball
C19_Witness ==
    /\ pc = "called"
    /\ track.swaps = <<<<0, 1>>, <<0, 1>>>>
    /\ track.ball0 = 1
    /\ track.before # track.cups0
    /\ ballPosition = 1

\* C20: while the cups are shuffled, the cup at ballPosition is the cup that
\* was over the ball when the shuffle began, and ballPosition is where the
\* swaps made so far, replayed in order, take the index the ball started at.
C20_BallFollowsItsCup ==
    isShuffling =>
        /\ cups[ballPosition] = track.cup0
        /\ ballPosition = track.replayed

\* the last swap of a shuffle has been made and the ball is no longer where
\* it started
C20_Witness ==
    /\ isShuffling
    /\ pc = "shuffle"
    /\ frame.i = SHUFFLE_COUNT
    /\ ballPosition # track.ball0
    /\ cups[ballPosition] = track.cup0
    /\ gamesPlayed = 1

\* C21 as stated: with the ball at index 1, after swapCups(0, 1) and then
\* swapCups(1, 2) the ball is at index 2.
C21_ScenarioEndsAtTwo ==
    (pc = "called" /\ track.ball0 = 1
        /\ track.swaps = <<<<0, 1>>, <<1, 2>>>>)
        => ballPosition = 2

\* C21, amended: with the ball at index 1, after swapCups(0, 1) and then
\* swapCups(1, 2) the ball is at index 0: the first swap carries it to 0 and
\* the second does not touch index 0.
C21_ScenarioEndsAtZero ==
    (pc = "called" /\ track.ball0 = 1
        /\ track.swaps = <<<<0, 1>>, <<1, 2>>>>)
        => (ballPosition = 0 /\ cups[0] = track.cup0)

\* both swaps of the scenario have returned, on the array in its first order
C21_Witness ==
    /\ pc = "called"
    /\ track.ball0 = 1
    /\ track.cups0 = initialCups
    /\ track.swaps = <<<<0, 1>>, <<1, 2>>>>
    /\ cups = [k \in Indices |-> (k + 1) % CUP_COUNT]

\* C22: at most one swap is in progress: the swaps the shuffle has started
\* are the swaps it has committed, or one more while a swap is in progress,
\* so a swap starts only when every swap before it has updated cups and
\* ballPosition.
C22_OneSwapAtATime ==
    /\ track.started - track.committed \in {0, 1}
    /\ (track.started = track.committed + 1) <=> (pc = "swap")
    /\ isShuffling => track.committed = frame.i

\* the second swap of a shuffle is in progress and the first has committed
C22_Witness ==
    /\ isShuffling
    /\ pc = "swap"
    /\ track.started = 2
    /\ track.committed = 1
    /\ cups # track.cups0

\* C23: a call of swapCups starts both motions in the same step; while the
\* swap is in progress cups and ballPosition are what they were at the call;
\* they change in one step, taken only when both motions have completed,
\* which exchanges the two cups and moves the ball's index together.
C23_CommitAfterBothMotions ==
    [][/\ lastCall'.op = "swapCups"
          => (pc' = "swap" /\ frame'.task1 = 0 /\ frame'.task2 = 0)
       /\ pc' = "swap"
          => (cups' = track'.before /\ ballPosition' = track'.ballBefore)
       /\ (pc = "swap" /\ (cups' # cups \/ ballPosition' # ballPosition))
          => /\ frame.task1 = 2
             /\ frame.task2 = 2
             /\ pc' # "swap"
             /\ cups' = [track.before EXCEPT
                           ![frame.index1] = track.before[frame.index2],
                           ![frame.index2] = track.before[frame.index1]]
             /\ ballPosition' =
                    Replay(<<<<frame.index1, frame.index2>>>>,
                           track.ballBefore)]_vars

\* the first cup of a swap that moves the ball has arrived, the second is
\* still on its way, and nothing has been updated
C23_Witness ==
    /\ pc = "swap"
    /\ isShuffling
    /\ frame.task1 = 2
    /\ frame.task2 = 1
    /\ ballPosition = frame.index1
    /\ cups = track.before
    /\ ballPosition = track.ballBefore

\* C24: a round's shuffle commits SHUFFLE_COUNT swaps, no more; canSelect is
\* true only when all of them have committed, none is pending or in
\* progress and isShuffling is false again.
C24_SelectAfterAllSwaps ==
    /\ track.committed <= SHUFFLE_COUNT
    /\ pc \in {"select", "reveal", "reveal.ball"}
          => track.committed = SHUFFLE_COUNT
    /\ canSelect =>
          /\ pc = "select"
          /\ ~isShuffling
          /\ track.started = SHUFFLE_COUNT
          /\ track.committed = SHUFFLE_COUNT

\* the second round awaits its selection
C24_Witness ==
    /\ canSelect
    /\ gamesPlayed = 1
    /\ track.committed = SHUFFLE_COUNT
    /\ lastCall.op = "shuffleCups.return"

\* C25: every swap the shuffle calls has two different indices, both from
\* 0 to CUP_COUNT - 1.
C25_SwapIndicesDistinct ==
    (isShuffling /\ pc = "swap") =>
        /\ frame.index1 \in 0 .. CUP_COUNT - 1
        /\ frame.index2 \in 0 .. CUP_COUNT - 1
        /\ frame.index1 # frame.index2

\* the last swap of a shuffle is called with the pair (2, 0)
C25_Witness ==
    /\ isShuffling
    /\ pc = "swap"
    /\ lastCall.op = "swapCups"
    /\ track.started = SHUFFLE_COUNT
    /\ frame.index1 = 2
    /\ frame.index2 = 0

\* C26: a selectCup call made while the game is not awaiting a selection
\* (canSelect false, or shuffling, or revealing) returns at once: score,
\* gamesPlayed, ballPosition, the cups and the three flags keep their values
\* and no step of a selection follows from it; gamesPlayed is incremented at
\* most once between two shuffles.
C26_SelectOutsideAwaitingIsNoOp ==
    [][/\ (lastCall'.op \in {"click.cup", "click.cup.ignored"}
             /\ ~(canSelect /\ ~isShuffling /\ ~isRevealing))
          => /\ lastCall'.op = "click.cup.ignored"
             /\ UNCHANGED <<score, gamesPlayed, ballPosition, cups,
                            isShuffling, isRevealing, canSelect, pc, frame>>
       /\ track'.counted <= 1]_vars

\* a cup is clicked while the selection before it is still being resolved,
\* after the round has been counted
C26_Witness ==
    /\ lastCall.op = "click.cup.ignored"
    /\ pc = "reveal.ball"
    /\ isRevealing
    /\ track.counted = 1
    /\ gamesPlayed = 1

\* C27: an accepted selectCup(i) adds exactly 1 to gamesPlayed, adds exactly
\* 1 to score when i is ballPosition and nothing otherwise, and leaves
\* ballPosition as it was when the selection was made: so it is while the
\* selected cup is lifted, while the cup over the ball is lifted after a
\* miss, and when the selection has returned.
C27_SelectionCountsAndScores ==
    LET sel == track.sel
        hit == IF sel.cupIndex = sel.ball THEN 1 ELSE 0
    IN  /\ pc = "reveal" =>
              /\ gamesPlayed = sel.gamesPlayed
              /\ score = sel.score
              /\ ballPosition = sel.ball
        /\ pc = "reveal.ball" =>
              /\ hit = 0
              /\ gamesPlayed = sel.gamesPlayed + 1
              /\ score = sel.score
              /\ ballPosition = sel.ball
        /\ (pc = "idle" /\ gamesPlayed > 0) =>
              /\ gamesPlayed = sel.gamesPlayed + 1
              /\ score = sel.score + hit
              /\ ballPosition = sel.ball

\* the second selection, a miss after a hit, has returned
C27_Witness ==
    /\ pc = "idle"
    /\ lastCall.op = "selectCup.return"
    /\ gamesPlayed = 2
    /\ score = 1
    /\ track.sel.score = 1
    /\ track.sel.cupIndex # ballPosition

\* C28: a round started after the first leaves ballPosition as the round
\* before it ended, over the same cup; only the round started with no round
\* played draws it.
C28_BallKeptAcrossRounds ==
    [][(lastCall'.op = "click.play" /\ gamesPlayed > 0)
          => /\ ballPosition' = ballPosition
             /\ cups'[ballPosition'] = cups[ballPosition]]_vars

\* C29: ballPosition is an index of the cups array, from 0 to CUP_COUNT - 1,
\* in every state, and a step changes it only when it commits a swap or
\* starts a round.
C29_BallPositionValid ==
    /\ [](ballPosition \in 0 .. CUP_COUNT - 1)
    /\ [][ballPosition' # ballPosition
             => lastCall'.op \in {"swapCups.commit", "click.play"}]_vars

\* a swap of the second round has moved the ball to the last index
C29_Witness ==
    /\ lastCall.op = "swapCups.commit"
    /\ gamesPlayed = 1
    /\ track.ballBefore # ballPosition
    /\ ballPosition = CUP_COUNT - 1

\* C30: while a round is in progress (peek, shuffle, awaiting selection or
\* resolving) the play button is hidden, so a pointerdown meant for it runs
\* no handler and changes nothing; startGame runs only from the idle game,
\* which is neither shuffling, revealing nor awaiting a selection.
C30_NoStartDuringRound ==
    [][/\ pc' \in {"peek", "shuffle", "swap", "select", "reveal",
                   "reveal.ball"} => ~playButtonVisible'
       /\ (lastCall'.op \in {"click.play", "click.play.hidden"}
             /\ pc # "idle")
          => (lastCall'.op = "click.play.hidden" /\ UNCHANGED gameVars)
       /\ lastCall'.op = "click.play"
          => (pc = "idle" /\ ~isShuffling /\ ~isRevealing /\ ~canSelect)]_vars

\* a pointerdown where the play button was, in the middle of a swap of the
\* second round's shuffle
C30_Witness ==
    /\ lastCall.op = "click.play.hidden"
    /\ pc = "swap"
    /\ isShuffling
    /\ gamesPlayed = 1
    /\ track.committed > 0

\* C31: while a bet is in flight the bet amount cannot be changed: a step
\* taken with isBetting true leaves currentBetAmount as it was.
C31_BetFrozenInFlight ==
    [][isBetting => currentBetAmount' = currentBetAmount]_vars
\* C32: in the copy of the game that leaves a trail, the trail interval runs
\* only while a swap is in progress: whenever swapCups is not between its call
\* and its return no interval is running, and a running swap has exactly one.
C32_TrailOnlyDuringSwap ==
    /\ pc # "swap" => intervals = 0
    /\ pc = "swap" => intervals = 1

\* a swap of the trailing copy has returned and its interval is cleared
C32_Witness ==
    /\ track.committed >= 1
    /\ lastCall.op = "swapCups.commit"
    /\ intervals = 0

\* C33: betError, on the store or through the panel, sets isBetting to false,
\* leaves every other field of the store as it was and notifies once;
\* confirmBet(r) sets lastBet to r and isBetting to false, leaves the other
\* fields as they were and notifies once.
C33_TerminalCallsFrame ==
    [][/\ lastCall'.op \in {"betError", "panel.betError"}
          => /\ isBetting' = FALSE
             /\ UNCHANGED <<balance, currentBetAmount, lastBet, currency,
                            isConnected, connectionError, sessionToken,
                            userId, providerId>>
             /\ notified' = 1
       /\ lastCall'.op \in {"confirmBet", "panel.confirmBet"}
          => /\ lastBet' = lastCall'.arg
             /\ isBetting' = FALSE
             /\ UNCHANGED <<balance, currentBetAmount, currency, isConnected,
                            connectionError, sessionToken, userId,
                            providerId>>
             /\ notified' = 1]_vars

\* betError has run on a store that holds a confirmed bet, a bet amount and
\* a connection error
C33_Witness ==
    /\ lastCall.op = "betError"
    /\ lastBet # nullBet
    /\ currentBetAmount > 0
    /\ connectionError # null
    /\ ~isBetting

\* C34: an unsubscribe function removes one subscription only: called while
\* its callback is subscribed twice, it leaves the callback subscribed once.
C34_UnsubscribeRemovesOne ==
    [][(/\ lastCall'.op = "unsubscribe"
        /\ Cardinality({k \in DOMAIN listeners :
                           listeners[k] = lastCall'.arg}) = 2)
       => Cardinality({k \in DOMAIN listeners' :
                          listeners'[k] = lastCall'.arg}) = 1]_vars

\* C35: the default bet of updateBalance is set once only: on a store whose
\* bet amount has been other than 0, updateBalance leaves the bet amount as
\* it was, also after the bet was lowered back to 0.
C35_SeedOnlyOnce ==
    [][(lastCall'.op = "updateBalance" /\ hadBet)
       => currentBetAmount' = currentBetAmount]_vars

\* C36: the record an accepted place-bet click hands to onPlaceBet carries
\* the store's bet amount as it is at the call, and that bet is above 0 and
\* at most the balance.
C36_RecordCarriesStoreBet ==
    (lastCall.op = "click.placeBet" /\ lastCall.arg # nullBet)
        => /\ lastCall.arg.bet = currentBetAmount
           /\ 0 < lastCall.arg.bet
           /\ lastCall.arg.bet <= balance

\* C37: the cup that wins the round is the cup shown at the peek: when the
\* selection has been scored, score is one more than at the click if the cup
\* object at the selected index is the one that was lifted over the ball at
\* the start of the round, and as at the click for every other cup object,
\* whatever swaps the shuffle made.
C37_PeekedCupWins ==
    lastCall.op = "selectCup.lifted"
        => score = IF cups[track.sel.cupIndex] = track.cup0
                   THEN track.sel.score + 1
                   ELSE track.sel.score

\* the cup shown at the peek was selected and scored after a shuffle that
\* took it to another index
C37_Witness ==
    /\ lastCall.op = "selectCup.lifted"
    /\ cups[track.sel.cupIndex] = track.cup0
    /\ track.sel.cupIndex # track.ball0
    /\ track.committed = SHUFFLE_COUNT
    /\ score = track.sel.score + 1

\* C38: at most one of isShuffling, canSelect and isRevealing is true, and
\* the play button is on screen only when all three are false.
C38_PhasesExclusive ==
    /\ ~(isShuffling /\ canSelect)
    /\ ~(isShuffling /\ isRevealing)
    /\ ~(canSelect /\ isRevealing)
    /\ playButtonVisible => ~(isShuffling \/ canSelect \/ isRevealing)

\* the second round is in its reveal: a cup was selected after the shuffle
\* of a round started with the button that came back after the first
C38_Witness ==
    /\ gamesPlayed = 1
    /\ isRevealing
    /\ ~isShuffling
    /\ ~canSelect
    /\ ~playButtonVisible
    /\ track.committed = SHUFFLE_COUNT

\* C39: while the ticker and the timers keep firing, every started round
\* comes to await a selection (canSelect true, isShuffling false) and every
\* accepted selection brings the page back to idle (isRevealing false, the
\* play button on screen).
C39_RoundsProgress ==
    /\ (pc = "peek") ~> (canSelect /\ ~isShuffling)
    /\ isRevealing ~> (~isRevealing /\ playButtonVisible)

\* a second round was started, shuffled, answered and is back at idle
C39_Witness ==
    /\ gamesPlayed = 2
    /\ pc = "idle"
    /\ ~isRevealing
    /\ playButtonVisible
    /\ track.committed = SHUFFLE_COUNT

\* C40 as stated: score and gamesPlayed never decrease, 0 <= score <=
\* gamesPlayed in every state, neither changes during the peek or the
\* shuffle, and gamesPlayed equals the number of accepted selections.
C40_CountsEqualAccepted ==
    /\ [](/\ 0 <= score
          /\ score <= gamesPlayed
          /\ gamesPlayed = track.accepted)
    /\ [][/\ score' >= score
          /\ gamesPlayed' >= gamesPlayed
          /\ pc \in {"peek", "shuffle", "swap"}
                => UNCHANGED <<score, gamesPlayed>>]_vars

\* C40 amended: score and gamesPlayed never decrease, 0 <= score <=
\* gamesPlayed in every state, neither changes during the peek or the
\* shuffle, and gamesPlayed equals the number of accepted selections whose
\* cup has been lifted: it is one behind the accepted selections from the
\* accepted click until the lift of the selected cup has ended.
C40_CountsFollowAccepted ==
    /\ [](/\ 0 <= score
          /\ score <= gamesPlayed
          /\ gamesPlayed = IF pc = "reveal" THEN track.accepted - 1
                                            ELSE track.accepted)
    /\ [][/\ score' >= score
          /\ gamesPlayed' >= gamesPlayed
          /\ pc \in {"peek", "shuffle", "swap"}
                => UNCHANGED <<score, gamesPlayed>>]_vars

\* the second selection is accepted and its cup not lifted yet: one round
\* counted and scored, two selections accepted
C40_Witness ==
    /\ pc = "reveal"
    /\ track.accepted = 2
    /\ gamesPlayed = 1
    /\ score = 1

====
